---- MODULE Spec2Model ----
(***************************************************************************)
(* Model of ckan/new_tests/helpers.py: the test helper functions           *)
(* reset_db, call_action, call_auth, _get_test_app, the class              *)
(* FunctionalTestBaseClass and the backported webtest_submit /             *)
(* webtest_submit_fields.                                                  *)
(*                                                                         *)
(* Python values are records tagged by their type, so that values of       *)
(* different types can be compared: None, Str(s), Bool(b), PyInt(i),         *)
(* List(q).  A dict is a function whose DOMAIN is its key set.             *)
(***************************************************************************)
EXTENDS Integers, Sequences, FiniteSets, TLC

VARIABLES
    \* webtest helpers
    form,            \* the webtest.Form handed to the helper
    submit_call,     \* the arguments of the helper call made on it
    submit_result,   \* what the call returned or raised
    requests,        \* requests issued through form.response.goto
    \* logic helpers
    context,         \* the caller's context dict (or None)
    logic_call,      \* the arguments of the call_action / call_auth call
    logic_result,    \* what the call returned or raised
    dispatched,      \* functions looked up and calls made on them
    \* FunctionalTestBaseClass lifecycle and the database
    config,          \* pylons.config, the process-wide configuration
    original_config, \* cls.original_config
    app,             \* cls.app
    patch,           \* what the test class's _apply_config_changes does
    phase,           \* how far the test class lifecycle has got
    tests_run,       \* number of test methods run so far
    sessions,        \* open database sessions (model.Session)
    records,         \* records persisted in the database
    db_state         \* "ok", or "hung" when a rebuild waits on an open session

form_vars == <<form, submit_call, submit_result, requests>>
logic_vars == <<context, logic_call, logic_result, dispatched>>
class_vars == <<config, original_config, app, patch, phase, tests_run>>
db_vars == <<sessions, records, db_state>>
vars == <<form_vars, logic_vars, class_vars, db_vars>>

(***************************************************************************)
(* Python values                                                           *)
(***************************************************************************)
None == [t |-> "None"]
Str(s) == [t |-> "str", s |-> s]
Bool(b) == [t |-> "bool", b |-> b]
PyInt(i) == [t |-> "int", i |-> i]
List(q) == [t |-> "list", items |-> q]

\* the empty dict
EmptyDict == [k \in {} |-> None]
\* dict.setdefault(k, v): the dict after the call
setdefault(d, k, v) == IF k \in DOMAIN d THEN d ELSE d @@ (k :> v)

(***************************************************************************)
(* Bounds                                                                  *)
(***************************************************************************)
MaxFields == 2
MaxTests == 2
MaxSessions == 2
MaxRecords == 3

(***************************************************************************)
(* webtest forms.  A field object is [t, v]: t its class (Submit, Text,    *)
(* File, MultipleSelect), v the value it holds.  form.field_order is a     *)
(* sequence of <<name, field>> pairs, name being None for a field without  *)
(* a name attribute.                                                       *)
(***************************************************************************)
FieldNames == {None, Str("N"), Str("M")}
FieldObjects ==
    [t : {"Submit"}, v : {None, Str("a"), Str("b")}]
    \cup [t : {"Text"}, v : {Str("a")}]
    \cup [t : {"File"}, v : {None, Str("f")}]
    \cup [t : {"MultipleSelect"}, v : {List(<<Str("a"), Str("b")>>)}]
FieldOrders == UNION {[1..n -> FieldNames \X FieldObjects] : n \in 0..MaxFields}
Methods == {"get", "POST"}
Forms == [field_order : FieldOrders, method : Methods,
          enctype : {"application/x-www-form-urlencoded"}, action : {"/edit"}]

\* field.value: a submit button has no value of its own
value(field) == IF field.t = "Submit" THEN None ELSE field.v
\* field.value_if_submitted()
value_if_submitted(field) == field.v
\* str.upper() on the method names in use
upper(s) == CASE s = "get" -> "GET" [] s = "post" -> "POST" [] OTHER -> s

(***************************************************************************)
(* webtest_submit_fields                                                   *)
(***************************************************************************)
\* ListEntries with the list appended as one entry
ListEntries_Whole(name, items, k) == <<(<<name, List(items)>>)>>

\* the entries appended for a list value, in order
RECURSIVE ListEntries(_, _, _)
ListEntries(name, items, k) ==
    IF k > Len(items) THEN <<>>
    ELSE <<(<<name, items[k]>>)>> \o ListEntries(name, items, k + 1)

\* SubmitLoopBody without "current_index += 1"
SubmitLoopBody_NoCount(loc, name, field, submit_name, index, submit_value) ==
    IF name = None THEN loc
    ELSE IF submit_name # None /\ name = submit_name THEN
        LET s1 == IF index # None /\ PyInt(loc.current_index) = index
                  THEN Append(loc.submit, <<name, value_if_submitted(field)>>)
                  ELSE loc.submit
            s2 == IF submit_value # None /\ value_if_submitted(field) = submit_value
                  THEN Append(s1, <<name, value_if_submitted(field)>>)
                  ELSE s1
        IN [submit |-> s2, current_index |-> loc.current_index]
    ELSE
        LET val == value(field) IN
        IF val = None THEN loc
        ELSE IF field.t = "File" THEN
            [loc EXCEPT !.submit = Append(@, <<name, field>>)]
        ELSE IF val.t = "list" THEN
            [loc EXCEPT !.submit = @ \o ListEntries(name, val.items, 1)]
        ELSE [loc EXCEPT !.submit = Append(@, <<name, val>>)]

\* one iteration of the loop over form.field_order, on the local state
\* loc = [submit, current_index]
SubmitLoopBody(loc, name, field, submit_name, index, submit_value) ==
    IF name = None THEN loc
    ELSE IF submit_name # None /\ name = submit_name THEN
        LET s1 == IF index # None /\ PyInt(loc.current_index) = index
                  THEN Append(loc.submit, <<name, value_if_submitted(field)>>)
                  ELSE loc.submit
            s2 == IF submit_value # None /\ value_if_submitted(field) = submit_value
                  THEN Append(s1, <<name, value_if_submitted(field)>>)
                  ELSE s1
        IN [submit |-> s2, current_index |-> loc.current_index + 1]
    ELSE
        LET val == value(field) IN
        IF val = None THEN loc
        ELSE IF field.t = "File" THEN
            [loc EXCEPT !.submit = Append(@, <<name, field>>)]
        ELSE IF val.t = "list" THEN
            [loc EXCEPT !.submit = @ \o ListEntries(name, val.items, 1)]
        ELSE [loc EXCEPT !.submit = Append(@, <<name, val>>)]

RECURSIVE SubmitLoop(_, _, _, _, _, _)
SubmitLoop(field_order, k, loc, submit_name, index, submit_value) ==
    IF k > Len(field_order) THEN loc
    ELSE SubmitLoop(field_order, k + 1,
                    SubmitLoopBody(loc, field_order[k][1], field_order[k][2],
                                   submit_name, index, submit_value),
                    submit_name, index, submit_value)

\* BothGiven with "submit_value is None" for "submit_value is not None"
BothGiven_ValueNone(index, submit_value) == index # None /\ submit_value = None

\* the check that raises ValueError
BothGiven(index, submit_value) == index # None /\ submit_value # None

\* DefaultIndex without the default
DefaultIndex_Kept(index, submit_value) == index

\* "If no particular button was selected, use the first one"
DefaultIndex(index, submit_value) ==
    IF index = None /\ submit_value = None THEN PyInt(0) ELSE index

\* the outcome: exc the exception raised (None when it returns), submit the
\* local list, which is the value returned, fields the number of fields read
webtest_submit_fields(f, name, index, submit_value) ==
    IF BothGiven(index, submit_value)
    THEN [exc |-> Str("ValueError"), submit |-> <<>>, fields |-> 0]
    ELSE LET loc == SubmitLoop(f.field_order, 1,
                               [submit |-> <<>>, current_index |-> 0],
                               name, DefaultIndex(index, submit_value), submit_value)
         IN [exc |-> None, submit |-> loc.submit, fields |-> Len(f.field_order)]

\* webtest_submit: the outcome and the request issued through
\* form.response.goto (None when none is issued)
webtest_submit(f, name, index, val, args) ==
    LET got == webtest_submit_fields(f, name, index, val) IN
    IF got.exc # None
    THEN [exc |-> got.exc, submit |-> got.submit, fields |-> got.fields,
          request |-> None]
    ELSE LET args1 == IF upper(f.method) # "GET"
                      THEN setdefault(args, "content_type", Str(f.enctype))
                      ELSE args
         IN [exc |-> None, submit |-> got.submit, fields |-> got.fields,
             request |-> [url |-> f.action, method |-> f.method,
                          params |-> got.submit, args |-> args1]]

\* the arguments tests call the helpers with
SubmitNames == {None, Str("N")}
SubmitIndexes == {None} \cup {PyInt(i) : i \in 0..MaxFields}
SubmitValues == {None, Str("a"), Str("b")}
SubmitArgs == {EmptyDict, [content_type |-> Str("text/plain")]}
NoCall == [fn |-> "none"]

FormInit ==
    /\ form \in Forms
    /\ submit_call = NoCall
    /\ submit_result = None
    /\ requests = <<>>

\* a test calls webtest_submit_fields(form, name, index=, submit_value=)
CallWebtestSubmitFields ==
    /\ submit_call = NoCall
    /\ \E name \in SubmitNames, index \in SubmitIndexes, val \in SubmitValues :
         /\ submit_call' = [fn |-> "webtest_submit_fields", name |-> name,
                            index |-> index, value |-> val]
         /\ submit_result' = webtest_submit_fields(form, name, index, val)
    /\ UNCHANGED <<form, requests>>
    /\ UNCHANGED <<logic_vars, class_vars, db_vars>>

\* a test calls webtest_submit(form, name, index=, value=, **args)
CallWebtestSubmit ==
    /\ submit_call = NoCall
    /\ \E name \in SubmitNames, index \in SubmitIndexes, val \in SubmitValues,
          args \in SubmitArgs :
         LET got == webtest_submit(form, name, index, val, args) IN
         /\ submit_call' = [fn |-> "webtest_submit", name |-> name,
                            index |-> index, value |-> val]
         /\ submit_result' = [exc |-> got.exc, submit |-> got.submit,
                              fields |-> got.fields]
         /\ requests' = IF got.request = None THEN requests
                        ELSE Append(requests, got.request)
    /\ UNCHANGED form
    /\ UNCHANGED <<logic_vars, class_vars, db_vars>>

(***************************************************************************)
(* call_action and call_auth                                               *)
(***************************************************************************)
ContextKeys == {"user", "model", "ignore_auth"}
ContextValues(k) ==
    CASE k = "user" -> {Str("fred")}
      [] k = "model" -> {Str("mock_model")}
      [] k = "ignore_auth" -> {Bool(TRUE), Bool(FALSE)}
AllContextValues == UNION {ContextValues(k) : k \in ContextKeys}
Contexts ==
    UNION {{c \in [D -> AllContextValues] : \A k \in D : c[k] \in ContextValues(k)} :
           D \in SUBSET ContextKeys}
\* **kwargs of a call
Kwargs == {EmptyDict, [id |-> Str("some_id")]}
\* what the function dispatched to does: returns a value or raises
Returns == {[exc |-> None, value |-> Str("result")],
            [exc |-> None, value |-> [success |-> Bool(FALSE)]],
            [exc |-> Str("NotAuthorized"), value |-> None]}

\* the names ckan.logic.get_action knows
ActionNames == {"user_create"}
\* the attributes of the module ckan.logic.auth.update
AuthNames == {"user_update"}
\* names tests call the helpers with
CalledNames == {"user_create", "user_update", "no_such_function"}

\* logic.get_action(action_name): the function, or KeyError
get_action(action_name) ==
    IF action_name \in ActionNames
    THEN [exc |-> None, fn |-> action_name]
    ELSE [exc |-> Str("KeyError"), fn |-> None]

\* ckan.logic.auth.update.__getattribute__(auth_name)
auth_getattribute(auth_name) ==
    IF auth_name \in AuthNames
    THEN [exc |-> None, fn |-> auth_name]
    ELSE [exc |-> Str("AttributeError"), fn |-> None]

LookupEvent(registry, name) == [ev |-> "lookup", registry |-> registry, name |-> name]
CallEvent(name, ctx, data_dict) ==
    [ev |-> "call", name |-> name, context |-> ctx, data_dict |-> data_dict]

\* "if context is None: context = {}"
ContextOrEmpty(ctx) == IF ctx = None THEN EmptyDict ELSE ctx

\* ActionContext with context['ignore_auth'] = True for the second setdefault
ActionContext_Forced(ctx) ==
    ("ignore_auth" :> Bool(TRUE))
        @@ setdefault(ContextOrEmpty(ctx), "user", Str("127.0.0.1"))

\* the two setdefault calls of call_action
ActionContext(ctx) ==
    setdefault(setdefault(ContextOrEmpty(ctx), "user", Str("127.0.0.1")),
               "ignore_auth", Bool(TRUE))

\* call_action(action_name, context, **kwargs), ret being what the action
\* function does when called: the outcome, the context dict after the call
\* and the lookups and calls made
call_action(action_name, ctx, kwargs, ret) ==
    LET ctx1 == ActionContext(ctx)
        found == get_action(action_name)
    IN IF found.exc # None
       THEN [exc |-> found.exc, value |-> None, context |-> ctx1,
             events |-> <<LookupEvent("action", action_name)>>]
       ELSE [exc |-> ret.exc, value |-> ret.value, context |-> ctx1,
             events |-> <<LookupEvent("action", action_name),
                          CallEvent(found.fn, ctx1, kwargs)>>]

\* AuthAssertionFails without the second assert
AuthAssertionFails_UserOnly(ctx) == "user" \notin DOMAIN ctx

\* the two assert statements of call_auth
AuthAssertionFails(ctx) == "user" \notin DOMAIN ctx \/ "model" \notin DOMAIN ctx

\* call_auth(auth_name, context, **kwargs)
call_auth(auth_name, ctx, kwargs, ret) ==
    IF ctx = None
    THEN [exc |-> Str("TypeError"), value |-> None, context |-> ctx, events |-> <<>>]
    ELSE IF AuthAssertionFails(ctx)
    THEN [exc |-> Str("AssertionError"), value |-> None, context |-> ctx,
          events |-> <<>>]
    ELSE LET found == auth_getattribute(auth_name) IN
         IF found.exc # None
         THEN [exc |-> found.exc, value |-> None, context |-> ctx,
               events |-> <<LookupEvent("auth", auth_name)>>]
         ELSE [exc |-> ret.exc, value |-> ret.value, context |-> ctx,
               events |-> <<LookupEvent("auth", auth_name),
                            CallEvent(found.fn, ctx, kwargs)>>]

LogicInit ==
    /\ context \in Contexts \cup {None}
    /\ logic_call = NoCall
    /\ logic_result = None
    /\ dispatched = <<>>

\* a test calls call_action(name, context=context, **kwargs)
CallAction ==
    /\ logic_call = NoCall
    /\ \E name \in CalledNames, kwargs \in Kwargs, ret \in Returns :
         LET got == call_action(name, context, kwargs, ret) IN
         /\ logic_call' = [fn |-> "call_action", name |-> name, context |-> context,
                           kwargs |-> kwargs, ret |-> ret]
         /\ logic_result' = [exc |-> got.exc, value |-> got.value]
         /\ context' = IF context = None THEN None ELSE got.context
         /\ dispatched' = dispatched \o got.events
    /\ UNCHANGED <<form_vars, class_vars, db_vars>>

\* a test calls call_auth(name, context=context, **kwargs)
CallAuth ==
    /\ logic_call = NoCall
    /\ \E name \in CalledNames, kwargs \in Kwargs, ret \in Returns :
         LET got == call_auth(name, context, kwargs, ret) IN
         /\ logic_call' = [fn |-> "call_auth", name |-> name, context |-> context,
                           kwargs |-> kwargs, ret |-> ret]
         /\ logic_result' = [exc |-> got.exc, value |-> got.value]
         /\ context' = got.context
         /\ dispatched' = dispatched \o got.events
    /\ UNCHANGED <<form_vars, class_vars, db_vars>>

(***************************************************************************)
(* The database behind ckan.model: sessions maps each open session to the  *)
(* records it has added and not committed, records is what is persisted.   *)
(***************************************************************************)
SessionIds == 1..MaxSessions
RecordIds == 1..MaxRecords

\* model.Session.close_all(): every session is closed, what it had not
\* committed is dropped
close_all(db) == [db EXCEPT !.sessions = EmptyDict]

\* model.repo.rebuild_db(): a clean database; it waits for ever on a
\* connection left open
rebuild_db(db) ==
    IF DOMAIN db.sessions # {}
    THEN [db EXCEPT !.db_state = "hung"]
    ELSE [db EXCEPT !.records = {}, !.db_state = "clean"]

\* reset_db rebuilding before it closes the sessions
reset_db_RebuildFirst(db) == close_all(rebuild_db(db))

\* reset_db()
reset_db(db) == rebuild_db(close_all(db))

\* FunctionalTestBaseClass.setup(self)
setup(db) == rebuild_db(close_all(db))

Database == [sessions |-> sessions, records |-> records, db_state |-> db_state]
SetDatabase(db) ==
    /\ sessions' = db.sessions
    /\ records' = db.records
    /\ db_state' = db.db_state

DbInit ==
    /\ sessions = EmptyDict
    /\ records \in SUBSET RecordIds
    /\ db_state = "in_use"

\* a test opens a session
OpenSession ==
    /\ db_state # "hung"
    /\ \E s \in SessionIds \ DOMAIN sessions :
         sessions' = sessions @@ (s :> {})
    /\ db_state' = "in_use"
    /\ UNCHANGED records
    /\ UNCHANGED <<form_vars, logic_vars, class_vars>>

\* a test adds a record to an open session
SessionAdd ==
    /\ db_state # "hung"
    /\ \E s \in DOMAIN sessions : \E r \in RecordIds \ sessions[s] :
         sessions' = [sessions EXCEPT ![s] = @ \cup {r}]
    /\ db_state' = "in_use"
    /\ UNCHANGED records
    /\ UNCHANGED <<form_vars, logic_vars, class_vars>>

\* a test commits a session
SessionCommit ==
    /\ db_state # "hung"
    /\ \E s \in DOMAIN sessions :
         /\ sessions[s] # {}
         /\ records' = records \cup sessions[s]
         /\ sessions' = [sessions EXCEPT ![s] = {}]
    /\ db_state' = "in_use"
    /\ UNCHANGED <<form_vars, logic_vars, class_vars>>

\* a test calls reset_db()
ResetDb ==
    /\ db_state # "hung"
    /\ SetDatabase(reset_db(Database))
    /\ UNCHANGED <<form_vars, logic_vars, class_vars>>

\* the test runner calls setup() on a test object
Setup ==
    /\ db_state # "hung"
    /\ SetDatabase(setup(Database))
    /\ UNCHANGED <<form_vars, logic_vars, class_vars>>

(***************************************************************************)
(* pylons.config and FunctionalTestBaseClass                               *)
(***************************************************************************)
ConfigKeys == {"ckan.legacy_templates", "global_conf", "ckan.site_id"}
ConfigValues(k) ==
    IF k = "ckan.legacy_templates" THEN {Bool(TRUE), Bool(FALSE)}
    ELSE {Str("x"), Str("y")}
AllConfigValues == UNION {ConfigValues(k) : k \in ConfigKeys}
Configs ==
    UNION {{c \in [D -> AllConfigValues] : \A k \in D : c[k] \in ConfigValues(k)} :
           D \in SUBSET ConfigKeys}

\* dict.copy()
copy(d) == d
\* dict.clear(): the dict after the call
clear(d) == EmptyDict
\* dict.update(other): the dict after the call
update(d, other) ==
    [k \in DOMAIN d \cup DOMAIN other |-> IF k \in DOMAIN other THEN other[k] ELSE d[k]]
\* d[k] = v
setitem(d, k, v) == update(d, k :> v)
\* del d[k]
delitem(d, k) == [j \in DOMAIN d \ {k} |-> d[j]]

\* What an override of _apply_config_changes does to cfg: patch maps the
\* keys it touches to the value it sets, or to Deleted for a key it removes.
Deleted == [t |-> "deleted"]
Patches ==
    UNION {{p \in [D -> AllConfigValues \cup {Deleted}] :
              \A k \in D : p[k] \in ConfigValues(k) \cup {Deleted}} :
           D \in SUBSET ConfigKeys}
_apply_config_changes(cfg, p) ==
    [k \in {j \in DOMAIN cfg \cup DOMAIN p : ~(j \in DOMAIN p /\ p[j] = Deleted)} |->
        IF k \in DOMAIN p THEN p[k] ELSE cfg[k]]

\* _get_test_app(): the config after the call, and the application made
\* by make_app(config['global_conf'], **config), or the KeyError
_get_test_app(cfg) ==
    LET cfg1 == setitem(cfg, "ckan.legacy_templates", Bool(FALSE)) IN
    IF "global_conf" \notin DOMAIN cfg1
    THEN [exc |-> Str("KeyError"), config |-> cfg1, app |-> None]
    ELSE [exc |-> None, config |-> cfg1,
          app |-> [conf |-> cfg1["global_conf"], app_conf |-> cfg1]]

\* setup_class taking its copy after _apply_config_changes
setup_class_LateCopy(cfg, p) ==
    LET cfg1 == _apply_config_changes(cfg, p)
        original == copy(cfg1)
        made == _get_test_app(cfg1)
    IN [exc |-> made.exc, original_config |-> original, config |-> made.config,
        app |-> made.app]

\* FunctionalTestBaseClass.setup_class(cls), p being what the class's
\* _apply_config_changes does
setup_class(cfg, p) ==
    LET original == copy(cfg)
        cfg1 == _apply_config_changes(cfg, p)
        made == _get_test_app(cfg1)
    IN [exc |-> made.exc, original_config |-> original, config |-> made.config,
        app |-> made.app]

\* teardown_class without config.clear()
teardown_class_NoClear(cfg, original) == update(cfg, original)

\* FunctionalTestBaseClass.teardown_class(cls): the config after the call
teardown_class(cfg, original) == update(clear(cfg), original)

ClassInit ==
    /\ config \in {c \in Configs : "global_conf" \in DOMAIN c}
    /\ original_config = None
    /\ app = None
    /\ patch \in Patches
    /\ phase = "new"
    /\ tests_run = 0

\* the test runner calls setup_class
SetupClass ==
    /\ phase = "new"
    /\ LET got == setup_class(config, patch) IN
         /\ original_config' = got.original_config
         /\ config' = got.config
         /\ app' = got.app
         /\ phase' = IF got.exc = None THEN "class_set_up" ELSE "setup_class_failed"
    /\ UNCHANGED <<patch, tests_run, db_vars, form_vars, logic_vars>>

\* the test runner calls setup() before a test method
TestSetup ==
    /\ phase = "class_set_up"
    /\ tests_run < MaxTests
    /\ db_state # "hung"
    /\ SetDatabase(setup(Database))
    /\ phase' = "in_test"
    /\ UNCHANGED <<config, original_config, app, patch, tests_run, form_vars, logic_vars>>

\* a test method sets a config key
TestSetConfig ==
    /\ phase = "in_test"
    /\ \E k \in ConfigKeys : \E v \in ConfigValues(k) :
         config' = setitem(config, k, v)
    /\ UNCHANGED <<original_config, app, patch, phase, tests_run, db_vars, form_vars, logic_vars>>

\* a test method deletes a config key
TestDelConfig ==
    /\ phase = "in_test"
    /\ \E k \in DOMAIN config : config' = delitem(config, k)
    /\ UNCHANGED <<original_config, app, patch, phase, tests_run, db_vars, form_vars, logic_vars>>

\* the test method returns
TestDone ==
    /\ phase = "in_test"
    /\ phase' = "class_set_up"
    /\ tests_run' = tests_run + 1
    /\ UNCHANGED <<config, original_config, app, patch, db_vars, form_vars, logic_vars>>

\* the test runner calls teardown_class
TeardownClass ==
    /\ phase = "class_set_up"
    /\ config' = teardown_class(config, original_config)
    /\ phase' = "torn_down"
    /\ UNCHANGED <<original_config, app, patch, tests_run, db_vars, form_vars, logic_vars>>

(***************************************************************************)
(* Specifications.  Each one runs one group of helpers; the state of the   *)
(* others stays as it is before any of them is used.                       *)
(***************************************************************************)
FormIdle ==
    /\ form = None
    /\ submit_call = NoCall
    /\ submit_result = None
    /\ requests = <<>>
LogicIdle ==
    /\ context = None
    /\ logic_call = NoCall
    /\ logic_result = None
    /\ dispatched = <<>>
ClassIdle ==
    /\ config = [global_conf |-> Str("x")]
    /\ original_config = None
    /\ app = None
    /\ patch = EmptyDict
    /\ phase = "new"
    /\ tests_run = 0
DbIdle ==
    /\ sessions = EmptyDict
    /\ records = {}
    /\ db_state = "clean"

\* the webtest helpers
FormSpecInit == FormInit /\ LogicIdle /\ ClassIdle /\ DbIdle
FormSpecNext == CallWebtestSubmitFields \/ CallWebtestSubmit
FormSpec == FormSpecInit /\ [][FormSpecNext]_vars

\* call_action and call_auth
LogicSpecInit == FormIdle /\ LogicInit /\ ClassIdle /\ DbIdle
LogicSpecNext == CallAction \/ CallAuth
LogicSpec == LogicSpecInit /\ [][LogicSpecNext]_vars

\* the lifecycle of a test class
ClassSpecInit == FormIdle /\ LogicIdle /\ ClassInit /\ DbIdle
ClassSpecNext ==
    SetupClass \/ TestSetup \/ TestSetConfig \/ TestDelConfig \/ TestDone
    \/ TeardownClass
ClassSpec == ClassSpecInit /\ [][ClassSpecNext]_vars

\* the database
DbSpecInit == FormIdle /\ LogicIdle /\ ClassIdle /\ DbInit
DbSpecNext == OpenSession \/ SessionAdd \/ SessionCommit \/ ResetDb \/ Setup
DbSpec == DbSpecInit /\ [][DbSpecNext]_vars

(***************************************************************************)
(* Properties                                                              *)
(***************************************************************************)
\* the positions of field_order whose field carries the name n
NamedPositions(fo, n) == {k \in 1..Len(fo) : fo[k][1] = n}
\* the position of the i-th field named n, counted from 0
NthNamed(fo, n, i) ==
    CHOOSE k \in NamedPositions(fo, n) :
        Cardinality({j \in NamedPositions(fo, n) : j < k}) = i
\* the entries of a result that carry the name n, and those that do not
EntriesFor(submit, n) == SelectSeq(submit, LAMBDA e : e[1] = n)
EntriesNotFor(submit, n) == SelectSeq(submit, LAMBDA e : e[1] # n)

\* a helper was called on the form and returned
SubmitReturned == submit_call # NoCall /\ submit_result.exc = None
\* webtest_submit_fields was called with a submit name and an index only
CalledByIndex ==
    /\ submit_call # NoCall
    /\ submit_call.fn = "webtest_submit_fields"
    /\ submit_call.name # None
    /\ submit_call.index # None
    /\ submit_call.value = None

\* several submit buttons share the name n, no other field carries it, and
\* their submitted values are pairwise distinct
SeveralButtons(fo, n) ==
    /\ Cardinality(NamedPositions(fo, n)) >= 2
    /\ \A k \in NamedPositions(fo, n) : fo[k][2].t = "Submit"
    /\ \A j, k \in NamedPositions(fo, n) :
         j # k => value_if_submitted(fo[j][2]) # value_if_submitted(fo[k][2])

\* the case of C2: webtest_submit_fields(form, N, index=i) on such a form,
\* i being the index of one of the buttons
C2_Case ==
    /\ CalledByIndex
    /\ SeveralButtons(form.field_order, submit_call.name)
    /\ submit_call.index.i < Cardinality(NamedPositions(form.field_order, submit_call.name))
\* the value of the button selected in that case
C2_Selected ==
    value_if_submitted(
        form.field_order[NthNamed(form.field_order, submit_call.name,
                                  submit_call.index.i)][2])

\* C2 as stated: on a form with several submit buttons named N of pairwise
\* distinct values, index=i yields exactly one entry for N, the value of the
\* i-th field named N, and submit_value=v with v that value returns the same
\* list.
C2_AsStated ==
    C2_Case =>
        /\ EntriesFor(submit_result.submit, submit_call.name)
             = <<(<<submit_call.name, C2_Selected>>)>>
        /\ webtest_submit_fields(form, submit_call.name, None, C2_Selected).submit
             = submit_result.submit

\* C2 amended: as C2, the selection by value being claimed for a button whose
\* value is not None only (submit_value=None means that no value is given).
C2_SubmitButtonSelected ==
    C2_Case =>
        /\ EntriesFor(submit_result.submit, submit_call.name)
             = <<(<<submit_call.name, C2_Selected>>)>>
        /\ C2_Selected # None =>
             webtest_submit_fields(form, submit_call.name, None, C2_Selected).submit
               = submit_result.submit

\* index=1 selected the second of two buttons, whose value is "b"
C2_Witness ==
    /\ C2_Case
    /\ submit_call.index = PyInt(1)
    /\ C2_Selected = Str("b")
    /\ submit_result.submit = <<(<<Str("N"), Str("b")>>)>>

\* C3: a call of webtest_submit_fields or webtest_submit with both index and
\* submit value given raises ValueError, before any field is read or
\* collected and before any request is issued through form.response.goto.
C3_BothGivenRaises ==
    (submit_call # NoCall /\ submit_call.index # None /\ submit_call.value # None)
        => /\ submit_result.exc = Str("ValueError")
           /\ submit_result.fields = 0
           /\ submit_result.submit = <<>>
           /\ requests = <<>>

\* webtest_submit was called with both on a form that has fields
C3_Witness ==
    /\ submit_call # NoCall
    /\ submit_call.fn = "webtest_submit"
    /\ submit_call.index # None /\ submit_call.value # None
    /\ Len(form.field_order) > 0
    /\ submit_result.exc = Str("ValueError")

\* what C7 says a field contributes, in declaration order, for the fields
\* whose name is not the submit name
C7_Contribution(name, field) ==
    IF value(field) = None THEN <<>>
    ELSE IF field.t = "File" THEN <<(<<name, field>>)>>
    ELSE IF value(field).t = "list"
    THEN [j \in 1..Len(value(field).items) |-> <<name, value(field).items[j]>>]
    ELSE <<(<<name, value(field)>>)>>
RECURSIVE C7_Expected(_, _, _, _)
C7_Expected(fo, k, submit_name, nameless) ==
    IF k > Len(fo) THEN <<>>
    ELSE (IF fo[k][1] = submit_name \/ (fo[k][1] = None /\ ~nameless) THEN <<>>
          ELSE C7_Contribution(fo[k][1], fo[k][2]))
         \o C7_Expected(fo, k + 1, submit_name, nameless)

\* C7 as stated: every field whose name is not the submit name contributes,
\* in declaration order: nothing for a value None, (name, field) for a file
\* upload, one entry per item for a list, (name, value) otherwise.
C7_AsStated ==
    SubmitReturned =>
        EntriesNotFor(submit_result.submit, submit_call.name)
          = C7_Expected(form.field_order, 1, submit_call.name, TRUE)

\* C7 amended: as C7 for the fields that have a name; a field whose name is
\* None contributes nothing.
C7_OtherFieldsCollected ==
    SubmitReturned =>
        EntriesNotFor(submit_result.submit, submit_call.name)
          = C7_Expected(form.field_order, 1, submit_call.name, FALSE)

\* a file upload followed by a list-valued field, both collected in order
C7_Witness ==
    /\ SubmitReturned
    /\ form.field_order = <<(<<Str("M"), [t |-> "File", v |-> Str("f")]>>),
                            (<<Str("M"), [t |-> "MultipleSelect",
                                          v |-> List(<<Str("a"), Str("b")>>)]>>)>>
    /\ submit_result.submit = <<(<<Str("M"), [t |-> "File", v |-> Str("f")]>>),
                                (<<Str("M"), Str("a")>>), (<<Str("M"), Str("b")>>)>>

\* C10: with a submit name and neither index nor value the result is that of
\* index=0; with an index the result holds at most one entry for the submit
\* name, and none when the index is not below the number of fields carrying
\* that name.
C10_FirstButtonByDefault ==
    /\ (/\ submit_call # NoCall
        /\ submit_call.fn = "webtest_submit_fields"
        /\ submit_call.name # None
        /\ submit_call.index = None
        /\ submit_call.value = None)
         => submit_result = webtest_submit_fields(form, submit_call.name, PyInt(0), None)
    /\ CalledByIndex =>
         /\ submit_result.exc = None
         /\ Len(EntriesFor(submit_result.submit, submit_call.name)) <= 1
         /\ submit_call.index.i >= Cardinality(NamedPositions(form.field_order,
                                                              submit_call.name))
              => EntriesFor(submit_result.submit, submit_call.name) = <<>>

\* no button was selected and the first of two fields named N was used
C10_Witness ==
    /\ submit_call # NoCall
    /\ submit_call.fn = "webtest_submit_fields"
    /\ submit_call.name = Str("N")
    /\ submit_call.index = None
    /\ submit_call.value = None
    /\ Cardinality(NamedPositions(form.field_order, Str("N"))) = 2
    /\ submit_result.submit = <<(<<Str("N"), Str("a")>>)>>

\* call_action or call_auth reached the function and called it
FunctionCalled == Len(dispatched) = 2
\* the context dict the function was called with
HandedContext == dispatched[2].context
\* the context the caller supplied, {} when it supplied none
CallerContext == IF logic_call.context = None THEN EmptyDict ELSE logic_call.context

\* C4: call_auth with a context lacking 'user' or 'model' raises
\* AssertionError with no function looked up or called; with both present
\* the named function is called exactly once, with that context and the
\* keyword arguments as data_dict, and what it returns or raises is the
\* outcome of call_auth.
C4_AuthPrecondition ==
    (logic_call # NoCall /\ logic_call.fn = "call_auth" /\ logic_call.context # None)
        => /\ ("user" \notin DOMAIN logic_call.context
               \/ "model" \notin DOMAIN logic_call.context)
                => /\ logic_result.exc = Str("AssertionError")
                   /\ dispatched = <<>>
           /\ ("user" \in DOMAIN logic_call.context
               /\ "model" \in DOMAIN logic_call.context
               /\ logic_call.name \in AuthNames)
                => /\ dispatched
                        = <<[ev |-> "lookup", registry |-> "auth",
                             name |-> logic_call.name],
                            [ev |-> "call", name |-> logic_call.name,
                             context |-> logic_call.context,
                             data_dict |-> logic_call.kwargs]>>
                   /\ logic_result = logic_call.ret

\* call_auth was called with a user and no model, and raised
C4_Witness ==
    /\ logic_call # NoCall
    /\ logic_call.fn = "call_auth"
    /\ logic_call.context # None
    /\ DOMAIN logic_call.context = {"user", "ignore_auth"}
    /\ logic_result.exc = Str("AssertionError")
    /\ dispatched = <<>>

C6_AlwaysIgnoreAuth ==
    (logic_call # NoCall /\ logic_call.fn = "call_action" /\ FunctionCalled)
        => HandedContext["ignore_auth"] = Bool(TRUE)

\* C1: after setup_class, any number of setup and test methods and
\* teardown_class, the configuration is the snapshot setup_class took: same
\* keys, same value for every key.
C1_ConfigRestored ==
    phase = "torn_down"
        => /\ DOMAIN config = DOMAIN original_config
           /\ \A k \in DOMAIN config : config[k] = original_config[k]

\* a class whose patch added a key ran a test and was torn down: the
\* configuration the application was built with is gone
C1_Witness ==
    /\ phase = "torn_down"
    /\ tests_run > 0
    /\ "ckan.site_id" \in DOMAIN patch
    /\ patch["ckan.site_id"] = Str("y")
    /\ app.app_conf["ckan.site_id"] = Str("y")
    /\ "ckan.site_id" \notin DOMAIN config
    /\ "ckan.legacy_templates" \notin DOMAIN config

\* C9: setup_class takes its snapshot of the configuration as it is before
\* the patch, and the application it builds is built after the patch with
\* 'ckan.legacy_templates' False.
C9_SetupClassOrder ==
    [][(phase = "new" /\ phase' # "new")
          => /\ original_config' = config
             /\ phase' = "class_set_up"
                  => /\ app' # None
                     /\ app'.app_conf["ckan.legacy_templates"] = Bool(FALSE)
                     /\ \A k \in DOMAIN patch \ {"ckan.legacy_templates"} :
                          IF patch[k] = Deleted THEN k \notin DOMAIN app'.app_conf
                          ELSE app'.app_conf[k] = patch[k]]_vars

\* the patch set 'ckan.legacy_templates' to True, the application was built
\* with False, and the snapshot has no such key
C9_Witness ==
    /\ phase = "class_set_up"
    /\ "ckan.legacy_templates" \in DOMAIN patch
    /\ patch["ckan.legacy_templates"] = Bool(TRUE)
    /\ app.app_conf["ckan.legacy_templates"] = Bool(FALSE)
    /\ "ckan.legacy_templates" \notin DOMAIN original_config

\* C8: reset_db and FunctionalTestBaseClass.setup never hang or fail; after
\* either, no session is open and no record remains; applied again to the
\* state either leaves, they leave it as it is.
C8_ResetDbClean ==
    /\ db_state # "hung"
    /\ db_state = "clean" => (records = {} /\ sessions = EmptyDict)
    /\ \A op \in {"reset_db", "setup"} :
         LET once == IF op = "reset_db" THEN reset_db(Database) ELSE setup(Database)
             twice == IF op = "reset_db" THEN reset_db(once) ELSE setup(once)
         IN /\ once = [sessions |-> EmptyDict, records |-> {}, db_state |-> "clean"]
            /\ twice = once

\* the database was reset
C8_Witness ==
    /\ db_state = "clean"
    /\ records = {}
    /\ sessions = EmptyDict

====
